---------------------------- MODULE Spec2Model ----------------------------
(***************************************************************************)
(* Code-to-PDF: the folder flow (explainer.main / process_folder) and the  *)
(* report flow (report.generate_report / explain_project / run_lizard).    *)
(*                                                                         *)
(* A folder is a tree of directories.  A directory is a small integer, the *)
(* root is 0.  A file is a record [stem, ext, size]; stem stands for the   *)
(* base name and is the rank of that name in lexical order, so sorted()    *)
(* on file names is sorting by stem.  A task or a read is identified by    *)
(* the pair <<directory, stem>>.                                           *)
(***************************************************************************)
EXTENDS Integers, Sequences, FiniteSets, TLC

\* ------------------------------------------------------------------ bounds
\* number of files of the flat ("wide") folder
NumFiles == 6

\* ------------------------------------------------------- program constants
MaxWorkers == 5
SIZE_LIMIT == 50000

ALLOWED_EXTENSIONS == {".py", ".js", ".html", ".css", ".ts", ".jsx", ".java", ".cpp"}
EXCLUDE_DIRS == {"node_modules", ".git", "dist", "build", "__pycache__"}
REPORT_EXCLUDE_DIRS == {"node_modules", ".git", "__pycache__", "venv", ".idea", ".vscode"}
LIZARD_SUFFIXES == {".js", ".py", ".java", ".cpp", ".c", ".ts"}

\* ------------------------------------------------------------ pure helpers
\* str.lower() on the extensions that occur
Lower(ext) ==
    CASE ext = ".PY" -> ".py"
      [] ext = ".JS" -> ".js"
      [] OTHER -> ext

\* os.path.splitext(file)[1].lower() in ALLOWED_EXTENSIONS
AllowedExt(f) == Lower(f.ext) \in ALLOWED_EXTENSIONS

\* file.endswith((".js", ".py", ...)) : case-sensitive
LizardExt(f) == f.ext \in LIZARD_SUFFIXES

\* faulty variant: the limit is one byte higher
TooLargeMut(size) == size > SIZE_LIMIT + 1

\* os.path.getsize(file_path) > 50_000
TooLarge(size) == size > SIZE_LIMIT

\* faulty variant: dirs is left as listed
PruneMut(ds, dname, excl) == ds

\* dirs[:] = [d for d in dirs if d not in EXCLUDE_DIRS]
RECURSIVE Prune(_, _, _)
Prune(ds, dname, excl) ==
    IF ds = <<>> THEN <<>>
    ELSE IF dname[Head(ds)] \in excl
         THEN Prune(Tail(ds), dname, excl)
         ELSE <<Head(ds)>> \o Prune(Tail(ds), dname, excl)

\* sorted(files): insertion sort on the name rank
RECURSIVE Insert(_, _)
Insert(f, s) ==
    IF s = <<>> THEN <<f>>
    ELSE IF f.stem <= Head(s).stem THEN <<f>> \o s
         ELSE <<Head(s)>> \o Insert(f, Tail(s))

RECURSIVE Sorted(_)
Sorted(s) == IF s = <<>> THEN <<>> ELSE Insert(Head(s), Sorted(Tail(s)))

Range(s) == {s[i] : i \in 1..Len(s)}

\* ------------------------------------------------------------- the folders
DirNames == {"src", "node_modules", ".git", "dist", "build", "__pycache__", "venv"}
Sizes == {SIZE_LIMIT - 1, SIZE_LIMIT, SIZE_LIMIT + 1}

File(stem, ext, size) == [stem |-> stem, ext |-> ext, size |-> size]

\* root/{b.md, a.py}, root/<n1>/c.JS, root/<n1>/<n2>/d.py
NestedFolder(n1, n2, s0) ==
    [kind    |-> "nested",
     dirs    |-> {0, 1, 2},
     parent  |-> (0 :> 0 @@ 1 :> 0 @@ 2 :> 1),
     dname   |-> (0 :> "." @@ 1 :> n1 @@ 2 :> n2),
     subdirs |-> (0 :> <<1>> @@ 1 :> <<2>> @@ 2 :> <<>>),
     listing |-> (0 :> <<File(2, ".md", 10), File(1, ".py", s0)>>
               @@ 1 :> <<File(1, ".JS", 20)>>
               @@ 2 :> <<File(1, ".py", 30)>>)]

\* root/{f1.py .. fn.py}, listed by the OS in reverse order
WideFolder(n) ==
    [kind    |-> "wide",
     dirs    |-> {0},
     parent  |-> (0 :> 0),
     dname   |-> (0 :> "."),
     subdirs |-> (0 :> <<>>),
     listing |-> (0 :> [i \in 1..n |-> File(n + 1 - i, ".py", 40)])]

\* the path given is not a directory: os.walk yields nothing
NoFolder ==
    [kind    |-> "none",
     dirs    |-> {},
     parent  |-> <<>>,
     dname   |-> <<>>,
     subdirs |-> <<>>,
     listing |-> <<>>]

NestedFolders == {NestedFolder(n1, n2, s0) : n1 \in DirNames, n2 \in DirNames, s0 \in Sizes}
WideFolders == {WideFolder(n) : n \in 1..NumFiles}
Folders == NestedFolders \cup WideFolders

\* names of the directories on the path from the root down to directory d
RECURSIVE DirPath(_, _)
DirPath(F, d) == IF d = 0 THEN <<>> ELSE Append(DirPath(F, F.parent[d]), F.dname[d])

\* the file <<d, stem>> of folder F
FileOf(F, id) == CHOOSE f \in Range(F.listing[id[1]]) : f.stem = id[2]

AllFileIds(F) == UNION {{<<d, f.stem>> : f \in Range(F.listing[d])} : d \in F.dirs}

\* the mock LLM rejects the explanation request of the files in llmFails
FailChoices(F) ==
    IF F.kind = "wide"
    THEN {S \in {{}, {<<0, 3>>}, {<<0, 1>>, <<0, Len(F.listing[0])>>}} : S \subseteq AllFileIds(F)}
    ELSE IF F.kind = "none" THEN {{}}
    ELSE SUBSET {<<0, 1>>, <<1, 1>>, <<2, 1>>}


\* ------------------------------------------------------------------- state
VARIABLES
    flow,         \* "folder": explainer.py <folder>, "report": report.py <project>
    argGiven,     \* the command line carries the path argument
    apiKey,       \* OPENROUTER_API_KEY is set
    isDir,        \* the path is an existing directory
    fs,           \* the folder at that path
    llmFails,     \* files whose explanation request the LLM endpoint fails
    pc,           \* position of the main thread
    exc,          \* an exception is propagating out of process_folder
    walkStack,    \* os.walk: directories still to be yielded, next first
    walkDir,      \* os.walk: the directory of the current iteration
    walkFiles,    \* the files of walkDir the inner loop has not handled yet
    visited,      \* directories os.walk has listed
    reads,        \* files whose content was read
    counter,      \* process_folder's counter
    tasks,        \* process_folder's tasks: the submitted calls, in order
    futures,      \* the future of each task, same index
    doneOrder,    \* finished futures not yet yielded, in completion order
    snapshot,     \* as_completed: futures already finished when it started
    retrieved,    \* futures as_completed has yielded
    code_md,      \* the fragments of the three running documents
    explanation_md,
    all_explanations_text,
    llmLog,       \* the requests sent to the LLM endpoint, in order
    pdfs,         \* the output files written
    all_code,     \* explain_project: the files concatenated
    functions     \* run_lizard: the files whose functions were collected

envVars  == <<flow, argGiven, apiKey, isDir, fs, llmFails>>
walkVars == <<walkStack, walkDir, walkFiles, visited>>
poolVars == <<counter, tasks, futures, doneOrder>>
collVars == <<snapshot, retrieved, code_md, explanation_md, all_explanations_text>>
repVars  == <<all_code, functions>>
vars     == <<flow, argGiven, apiKey, isDir, fs, llmFails, pc, exc,
              walkStack, walkDir, walkFiles, visited, reads,
              counter, tasks, futures, doneOrder,
              snapshot, retrieved, code_md, explanation_md, all_explanations_text,
              llmLog, pdfs, all_code, functions>>

NoFile == <<0, 0>>
Request(kind, id) == [kind |-> kind, id |-> id]

\* "## {counter}. {safe_rel}" : the heading of a fragment
Fragment(c, id) == [counter |-> c, dirs |-> DirPath(fs, id[1]), stem |-> id[2]]
NoFragment == [counter |-> 0, dirs |-> <<>>, stem |-> 0]

Init ==
    /\ flow \in {"folder", "report"}
    /\ argGiven \in BOOLEAN
    /\ apiKey \in BOOLEAN
    /\ isDir \in (IF argGiven THEN BOOLEAN ELSE {FALSE})
    /\ fs \in (IF isDir THEN Folders ELSE {NoFolder})
    /\ llmFails \in FailChoices(fs)
    /\ pc = "main"
    /\ exc = FALSE
    /\ walkStack = <<>>
    /\ walkDir = 0
    /\ walkFiles = <<>>
    /\ visited = {}
    /\ reads = {}
    /\ counter = 1
    /\ tasks = <<>>
    /\ futures = <<>>
    /\ doneOrder = <<>>
    /\ snapshot = {}
    /\ retrieved = {}
    /\ code_md = <<>>
    /\ explanation_md = <<>>
    /\ all_explanations_text = <<>>
    /\ llmLog = <<>>
    /\ pdfs = {}
    /\ all_code = <<>>
    /\ functions = <<>>

\* ------------------------------------------------------------- folder flow
\* explainer.main: the checks, then the first lines of process_folder
Main ==
    /\ flow = "folder"
    /\ pc = "main"
    /\ pc' = IF ~apiKey THEN "raised"
             ELSE IF ~argGiven THEN "exit1"
             ELSE IF ~isDir THEN "exit1"
             ELSE "walk"
    /\ walkStack' = IF apiKey /\ argGiven /\ isDir THEN <<0>> ELSE <<>>
    /\ UNCHANGED <<envVars, exc, walkDir, walkFiles, visited, reads, poolVars,
                   collVars, llmLog, pdfs, repVars>>

\* os.walk yields the next directory; the body prunes dirs and sorts files
WalkDir ==
    /\ pc = "walk"
    /\ walkFiles = <<>>
    /\ walkStack # <<>>
    /\ LET d == Head(walkStack) IN
        /\ walkDir' = d
        /\ visited' = visited \cup {d}
        /\ walkFiles' = Sorted(fs.listing[d])
        /\ walkStack' = Prune(fs.subdirs[d], fs.dname, EXCLUDE_DIRS) \o Tail(walkStack)
    /\ UNCHANGED <<envVars, pc, exc, reads, poolVars, collVars, llmLog, pdfs, repVars>>

\* faulty variant: the counter is not advanced
NextCounterMut(c) == c

\* counter += 1
NextCounter(c) == c + 1

\* the inner loop on a file whose extension is not allowed: continue
SkipFile ==
    /\ pc = "walk"
    /\ walkFiles # <<>>
    /\ ~AllowedExt(Head(walkFiles))
    /\ walkFiles' = Tail(walkFiles)
    /\ UNCHANGED <<envVars, pc, exc, walkStack, walkDir, visited, reads, poolVars,
                   collVars, llmLog, pdfs, repVars>>

PendingFuture ==
    [state |-> "PENDING", outcome |-> "none",
     code_md |-> NoFragment, explanation_md |-> NoFragment]

\* tasks.append(executor.submit(process_file, file_path, rel_path, counter))
SubmitFile ==
    /\ pc = "walk"
    /\ walkFiles # <<>>
    /\ AllowedExt(Head(walkFiles))
    /\ tasks' = Append(tasks, [id |-> <<walkDir, Head(walkFiles).stem>>, counter |-> counter])
    /\ futures' = Append(futures, PendingFuture)
    /\ counter' = NextCounter(counter)
    /\ walkFiles' = Tail(walkFiles)
    /\ UNCHANGED <<envVars, pc, exc, walkStack, walkDir, visited, reads, doneOrder,
                   collVars, llmLog, pdfs, repVars>>

\* ------------------------------------------------------------ worker pool
Running == {i \in 1..Len(futures) : futures[i].state = "RUNNING"}
Pending == {i \in 1..Len(futures) : futures[i].state = "PENDING"}
Finished == {i \in 1..Len(futures) : futures[i].state = "FINISHED"}

\* faulty variant: a thread per work item
WorkerAvailableMut(n) == TRUE

\* ThreadPoolExecutor(max_workers=5): a work item needs a free worker
WorkerAvailable(n) == n < MaxWorkers

\* process_file gets past both early returns and asks for an explanation
IssuesCall(f) == AllowedExt(f) /\ ~TooLarge(f.size)

\* a worker takes the oldest queued work item and runs process_file up to
\* the request of the explanation
StartTask ==
    /\ Pending # {}
    /\ WorkerAvailable(Cardinality(Running))
    /\ LET i == CHOOSE j \in Pending : \A k \in Pending : j <= k
           f == FileOf(fs, tasks[i].id)
       IN /\ futures' = [futures EXCEPT ![i].state = "RUNNING"]
          /\ reads' = IF IssuesCall(f) THEN reads \cup {tasks[i].id} ELSE reads
          /\ llmLog' = IF IssuesCall(f)
                       THEN Append(llmLog, Request("explain", tasks[i].id))
                       ELSE llmLog
    /\ UNCHANGED <<envVars, pc, exc, walkVars, counter, tasks, doneOrder,
                   collVars, pdfs, repVars>>

\* what process_file returns or raises for task t
ProcessFileResult(t) ==
    LET f == FileOf(fs, t.id) IN
    IF ~IssuesCall(f)
    THEN [state |-> "FINISHED", outcome |-> "skipped",
          code_md |-> NoFragment, explanation_md |-> NoFragment]
    ELSE IF t.id \in llmFails
    THEN [state |-> "FINISHED", outcome |-> "raised",
          code_md |-> NoFragment, explanation_md |-> NoFragment]
    ELSE [state |-> "FINISHED", outcome |-> "ok",
          code_md |-> Fragment(t.counter, t.id),
          explanation_md |-> Fragment(t.counter, t.id)]

\* process_file returns or raises; the future is set
FinishTask(i) ==
    /\ i \in Running
    /\ futures' = [futures EXCEPT ![i] = ProcessFileResult(tasks[i])]
    /\ doneOrder' = Append(doneOrder, i)
    /\ UNCHANGED <<envVars, pc, exc, walkVars, reads, counter, tasks,
                   collVars, llmLog, pdfs, repVars>>

\* --------------------------------------------------------- the collection
\* for future in as_completed(tasks): the generator starts
AsCompletedStart ==
    /\ pc = "walk"
    /\ walkFiles = <<>>
    /\ walkStack = <<>>
    /\ pc' = "collect"
    /\ snapshot' = Finished
    /\ UNCHANGED <<envVars, exc, walkVars, reads, poolVars, retrieved, code_md,
                   explanation_md, all_explanations_text, llmLog, pdfs, repVars>>

\* faulty variant: the newest finished future is yielded first
NextFromWaiterMut(s) == s[Len(s)]

\* the futures that finished after as_completed started are yielded in the
\* order they finished
NextFromWaiter(s) == Head(s)

\* the futures as_completed can yield next: the ones that were finished
\* when it started come first, in the order of a set
Yieldable ==
    IF snapshot # {} THEN snapshot
    ELSE IF doneOrder # <<>> THEN {NextFromWaiter(doneOrder)}
    ELSE {}

Remove(s, x) == SelectSeq(s, LAMBDA y : y # x)

\* faulty variant: the error of a task is swallowed
ResultRaisesMut(fut) == FALSE

\* future.result() re-raises what the task raised
ResultRaises(fut) == fut.outcome = "raised"

\* if file_code_md and file_explanation_md
HasFragments(fut) == fut.code_md # NoFragment /\ fut.explanation_md # NoFragment

\* faulty variant: assignment instead of +=
AddFragmentMut(doc, frag) == <<frag>>

\* code_md += file_code_md
AddFragment(doc, frag) == Append(doc, frag)

\* one iteration of the collection loop
Retrieve(i) ==
    /\ pc = "collect"
    /\ i \in Yieldable
    /\ snapshot' = snapshot \ {i}
    /\ doneOrder' = Remove(doneOrder, i)
    /\ retrieved' = retrieved \cup {i}
    /\ IF ResultRaises(futures[i])
       THEN /\ exc' = TRUE
            /\ pc' = "exit_with"
            /\ UNCHANGED <<code_md, explanation_md, all_explanations_text>>
       ELSE /\ UNCHANGED <<exc, pc>>
            /\ IF HasFragments(futures[i])
               THEN /\ code_md' = AddFragment(code_md, futures[i].code_md)
                    /\ explanation_md' = AddFragment(explanation_md, futures[i].explanation_md)
                    /\ all_explanations_text' =
                           AddFragment(all_explanations_text, futures[i].explanation_md)
               ELSE UNCHANGED <<code_md, explanation_md, all_explanations_text>>
    /\ UNCHANGED <<envVars, walkVars, reads, counter, tasks, futures, llmLog, pdfs, repVars>>

\* faulty variant: the loop stops after the first result
LoopExhaustedMut(got, n) == Cardinality(got) >= 1 \/ n = 0

\* as_completed is exhausted once it has yielded every future
LoopExhausted(got, n) == Cardinality(got) = n

CollectDone ==
    /\ pc = "collect"
    /\ LoopExhausted(retrieved, Len(tasks))
    /\ pc' = "exit_with"
    /\ UNCHANGED <<envVars, exc, walkVars, reads, poolVars, collVars, llmLog, pdfs, repVars>>

\* faulty variant: shutdown(wait=False)
ShutdownCompleteMut(futs) == TRUE

\* executor.__exit__: shutdown(wait=True) joins the workers, which run every
\* queued work item first
ShutdownComplete(futs) == \A i \in 1..Len(futs) : futs[i].state = "FINISHED"

ExecutorExit ==
    /\ pc = "exit_with"
    /\ ShutdownComplete(futures)
    /\ pc' = IF exc THEN "aborted" ELSE "save"
    /\ UNCHANGED <<envVars, exc, walkVars, reads, poolVars, collVars, llmLog, pdfs, repVars>>

\* the two save_pdf_from_markdown calls
SavePdfs ==
    /\ pc = "save"
    /\ pdfs' = pdfs \cup {"code_only11.pdf", "code_with_explanation11.pdf"}
    /\ pc' = "quiz"
    /\ UNCHANGED <<envVars, exc, walkVars, reads, poolVars, collVars, llmLog, repVars>>

\* generate_quiz(all_explanations_text): one request, which may fail
GenerateQuiz ==
    /\ pc = "quiz"
    /\ llmLog' = Append(llmLog, Request("quiz", NoFile))
    /\ \E ok \in BOOLEAN :
          /\ pc' = IF ok THEN "save_quiz" ELSE "aborted"
          /\ exc' = ~ok
    /\ UNCHANGED <<envVars, walkVars, reads, poolVars, collVars, pdfs, repVars>>

SaveQuiz ==
    /\ pc = "save_quiz"
    /\ pdfs' = pdfs \cup {"quiz11.pdf"}
    /\ pc' = "done"
    /\ UNCHANGED <<envVars, exc, walkVars, reads, poolVars, collVars, llmLog, repVars>>

\* ------------------------------------------------------------- report flow
\* report.py __main__ and the first lines of generate_report / explain_project
ReportMain ==
    /\ flow = "report"
    /\ pc = "main"
    /\ pc' = IF ~argGiven THEN "exit1" ELSE "explain_walk"
    /\ walkStack' = IF argGiven /\ isDir THEN <<0>> ELSE <<>>
    /\ UNCHANGED <<envVars, exc, walkDir, walkFiles, visited, reads, poolVars,
                   collVars, llmLog, pdfs, repVars>>

IdsIn(d, files) == [k \in 1..Len(files) |-> <<d, files[k].stem>>]

\* explain_project: one directory of the walk, every allowed file is read
ExplainWalkDir ==
    /\ pc = "explain_walk"
    /\ walkStack # <<>>
    /\ LET d == Head(walkStack)
           files == SelectSeq(fs.listing[d], AllowedExt)
       IN /\ walkDir' = d
          /\ visited' = visited \cup {d}
          /\ reads' = reads \cup Range(IdsIn(d, files))
          /\ all_code' = all_code \o IdsIn(d, files)
          /\ walkStack' = Prune(fs.subdirs[d], fs.dname, EXCLUDE_DIRS) \o Tail(walkStack)
    /\ UNCHANGED <<envVars, pc, exc, walkFiles, poolVars, collVars, llmLog, pdfs, functions>>

\* summary_text = call_llm(summary_prompt)
SummaryCall ==
    /\ pc = "explain_walk"
    /\ walkStack = <<>>
    /\ llmLog' = Append(llmLog, Request("summary", NoFile))
    /\ \E ok \in BOOLEAN :
          /\ pc' = IF ok THEN "suggestions" ELSE "aborted"
          /\ exc' = ~ok
    /\ UNCHANGED <<envVars, walkVars, reads, poolVars, collVars, pdfs, repVars>>

\* ai_suggestions = call_llm(suggestions_prompt); then run_lizard starts
SuggestionsCall ==
    /\ pc = "suggestions"
    /\ llmLog' = Append(llmLog, Request("suggestions", NoFile))
    /\ \E ok \in BOOLEAN :
          /\ pc' = IF ok THEN "lizard_walk" ELSE "aborted"
          /\ exc' = ~ok
          /\ walkStack' = IF ok /\ isDir THEN <<0>> ELSE <<>>
    /\ UNCHANGED <<envVars, walkDir, walkFiles, visited, reads, poolVars, collVars,
                   pdfs, repVars>>

\* run_lizard: one directory of the walk; an analysis that raises is skipped
LizardWalkDir ==
    /\ pc = "lizard_walk"
    /\ walkStack # <<>>
    /\ LET d == Head(walkStack)
           files == SelectSeq(fs.listing[d], LizardExt)
       IN /\ walkDir' = d
          /\ visited' = visited \cup {d}
          /\ reads' = reads \cup Range(IdsIn(d, files))
          /\ \E bad \in SUBSET Range(IdsIn(d, files)) :
                functions' = functions \o SelectSeq(IdsIn(d, files), LAMBDA id : id \notin bad)
          /\ walkStack' = Prune(fs.subdirs[d], fs.dname, REPORT_EXCLUDE_DIRS) \o Tail(walkStack)
    /\ UNCHANGED <<envVars, pc, exc, walkFiles, poolVars, collVars, llmLog, pdfs, all_code>>

\* the three chapters and pdf.output
ReportPdf ==
    /\ pc = "lizard_walk"
    /\ walkStack = <<>>
    /\ pdfs' = pdfs \cup {"project_report.pdf"}
    /\ pc' = "done"
    /\ UNCHANGED <<envVars, exc, walkVars, reads, poolVars, collVars, llmLog, repVars>>

\* ------------------------------------------------------- the specification
Next ==
    \/ Main
    \/ WalkDir
    \/ SkipFile
    \/ SubmitFile
    \/ StartTask
    \/ \E i \in 1..Len(futures) : FinishTask(i)
    \/ AsCompletedStart
    \/ \E i \in 1..Len(futures) : Retrieve(i)
    \/ CollectDone
    \/ ExecutorExit
    \/ SavePdfs
    \/ GenerateQuiz
    \/ SaveQuiz
    \/ ReportMain
    \/ ExplainWalkDir
    \/ SummaryCall
    \/ SuggestionsCall
    \/ LizardWalkDir
    \/ ReportPdf

Spec == Init /\ [][Next]_vars

\* ------------------------------------------------------------- properties
TaskIdx == 1..Len(tasks)
ExplainRequests(id) == {k \in 1..Len(llmLog) : llmLog[k].kind = "explain" /\ llmLog[k].id = id}
QuizRequests == {k \in 1..Len(llmLog) : llmLog[k].kind = "quiz"}
OutputPhase == pc \in {"save", "quiz", "save_quiz", "done"}
UnderExcluded(id) == \E k \in 1..Len(DirPath(fs, id[1])) : DirPath(fs, id[1])[k] \in EXCLUDE_DIRS
InDoc(doc, id) ==
    \E k \in 1..Len(doc) : doc[k].dirs = DirPath(fs, id[1]) /\ doc[k].stem = id[2]
Inverted(doc) == \E a, b \in 1..Len(doc) : a < b /\ doc[a].counter > doc[b].counter

\* C1: in the folder flow, once the explanation call of some task has
\* failed, the run never reaches the output phase: no quiz request is sent,
\* quiz11.pdf is never written, and the run can only end aborted.
C1_FailureAbortsWithoutQuiz ==
    (flow = "folder" /\ \E i \in TaskIdx : futures[i].outcome = "raised")
        => /\ QuizRequests = {}
           /\ "quiz11.pdf" \notin pdfs
           /\ pc \in {"walk", "collect", "exit_with", "aborted"}
           /\ (pc = "aborted" => exc)

\* the third of at least five files failed and the run is over
C1_Witness ==
    /\ flow = "folder"
    /\ pc = "aborted"
    /\ Len(tasks) >= 5
    /\ futures[3].outcome = "raised"
    /\ \A i \in TaskIdx \ {3} : futures[i].outcome = "ok"

\* C2 (as stated): a file whose size is at or above 50,000 bytes gets no
\* explanation request, its task returns the skipped result, and it appears
\* in no document.
C2_AtOrAboveThresholdSkipped ==
    \A i \in TaskIdx :
        FileOf(fs, tasks[i].id).size >= SIZE_LIMIT
            => /\ ExplainRequests(tasks[i].id) = {}
               /\ futures[i].outcome \in {"none", "skipped"}
               /\ ~InDoc(code_md, tasks[i].id)
               /\ ~InDoc(explanation_md, tasks[i].id)
               /\ ~InDoc(all_explanations_text, tasks[i].id)

\* C2 (amended): a file whose size is strictly above 50,000 bytes gets no
\* explanation request, its task returns the skipped result, and it appears
\* in no document nor in the explanations corpus.
C2_AboveThresholdSkipped ==
    \A i \in TaskIdx :
        FileOf(fs, tasks[i].id).size > SIZE_LIMIT
            => /\ ExplainRequests(tasks[i].id) = {}
               /\ futures[i].outcome \in {"none", "skipped"}
               /\ ~InDoc(code_md, tasks[i].id)
               /\ ~InDoc(explanation_md, tasks[i].id)
               /\ ~InDoc(all_explanations_text, tasks[i].id)

\* an oversized file went through its task and the run completed
C2_Witness ==
    /\ pc = "done"
    /\ flow = "folder"
    /\ \E i \in TaskIdx : /\ FileOf(fs, tasks[i].id).size > SIZE_LIMIT
                          /\ futures[i].outcome = "skipped"
                          /\ i \in retrieved
    /\ Len(code_md) >= 1

\* C3: when the API credential is absent or the path is not a directory, no
\* directory is listed, no file is read, no task is submitted and no LLM
\* request is sent, in the folder flow and in the report flow.
C3_ConfigErrorBeforeWork ==
    (~apiKey \/ ~isDir)
        => /\ visited = {}
           /\ reads = {}
           /\ tasks = <<>>
           /\ llmLog = <<>>

\* the files the walk of process_folder is to discover
Discoverable(F) == {id \in AllFileIds(F) : AllowedExt(FileOf(F, id)) /\ ~UnderExcluded(id)}

\* C4: no file is submitted twice, after the walk the tasks are exactly the
\* discovered files, and at most 5 tasks run at once, so at most 5
\* explanation calls are in flight.
C4_OneTaskPerFileAtMostFiveRunning ==
    /\ \A i, j \in TaskIdx : tasks[i].id = tasks[j].id => i = j
    /\ Len(futures) = Len(tasks)
    /\ (flow = "folder" /\ pc \notin {"main", "walk", "raised", "exit1"})
           => {tasks[i].id : i \in TaskIdx} = Discoverable(fs)
    /\ Cardinality(Running) <= MaxWorkers
    /\ Cardinality({i \in Running : IssuesCall(FileOf(fs, tasks[i].id))}) <= MaxWorkers

\* five tasks run while a sixth is queued
C4_Witness ==
    /\ Cardinality(Running) = MaxWorkers
    /\ Pending # {}
    /\ Len(tasks) > MaxWorkers

\* the future whose fragments this step appends to the documents
Appended == CHOOSE i \in retrieved' \ retrieved : TRUE

C6_OutputAfterAllTasks ==
    (flow = "folder" /\ (pdfs # {} \/ QuizRequests # {} \/ OutputPhase))
        => /\ \A i \in TaskIdx : futures[i].state = "FINISHED"
           /\ retrieved = TaskIdx
           /\ pc \notin {"main", "walk", "collect"}

\* the three documents were written for more files than there are workers
C6_Witness ==
    /\ flow = "folder"
    /\ pdfs = {"code_only11.pdf", "code_with_explanation11.pdf", "quiz11.pdf"}
    /\ Len(tasks) > MaxWorkers

\* every file of the folder is allowed, under the threshold and outside the
\* excluded directories
AllEligible(F) ==
    \A id \in AllFileIds(F) :
        /\ AllowedExt(FileOf(F, id))
        /\ FileOf(F, id).size < SIZE_LIMIT
        /\ ~UnderExcluded(id)

\* C7: for a folder of n eligible files and an LLM that never fails, a run
\* that reaches the output phase has sent exactly one explanation request
\* per file, n in all, and the explanation document has exactly n sections,
\* one per file.
C7_OneCallAndOneSectionPerFile ==
    (flow = "folder" /\ OutputPhase /\ AllEligible(fs) /\ llmFails = {})
        => /\ \A id \in AllFileIds(fs) : Cardinality(ExplainRequests(id)) = 1
           /\ Cardinality({k \in 1..Len(llmLog) : llmLog[k].kind = "explain"})
                 = Cardinality(AllFileIds(fs))
           /\ Len(explanation_md) = Cardinality(AllFileIds(fs))
           /\ \A id \in AllFileIds(fs) : InDoc(explanation_md, id)

\* five eligible files, five calls, five sections
C7_Witness ==
    /\ flow = "folder"
    /\ pc = "done"
    /\ AllEligible(fs)
    /\ Cardinality(AllFileIds(fs)) = 5
    /\ Len(explanation_md) = 5

\* C8: no file below an excluded directory, at any depth, is submitted, sent
\* to the LLM or read by explain_project, and neither walk lists a directory
\* that is excluded or lies below an excluded one.
C8_ExcludedNeverDiscovered ==
    /\ \A i \in TaskIdx : ~UnderExcluded(tasks[i].id)
    /\ \A k \in 1..Len(llmLog) : llmLog[k].kind = "explain" => ~UnderExcluded(llmLog[k].id)
    /\ \A k \in 1..Len(all_code) : ~UnderExcluded(all_code[k])
    /\ (flow = "folder" \/ pc \in {"explain_walk", "suggestions"})
           => \A d \in visited : ~UnderExcluded(<<d, 0>>)

\* the walk is over; an excluded directory held a plain directory with an
\* allowed file two levels below the root
C8_Witness ==
    /\ flow = "folder"
    /\ pc = "done"
    /\ fs.kind = "nested"
    /\ fs.dname[1] \in EXCLUDE_DIRS
    /\ fs.dname[2] = "src"
    /\ Len(tasks) = 1

\* C9: the task of the i-th enqueued file has counter i; a file's code
\* fragment and explanation fragment carry that counter and the same path,
\* and no counter occurs twice in a document.
C9_CounterIsEnqueuePosition ==
    /\ \A i \in TaskIdx : tasks[i].counter = i
    /\ Len(code_md) = Len(explanation_md)
    /\ \A k \in 1..Len(code_md) :
          /\ code_md[k] = explanation_md[k]
          /\ code_md[k].counter \in TaskIdx
          /\ code_md[k].dirs = DirPath(fs, tasks[code_md[k].counter].id[1])
          /\ code_md[k].stem = tasks[code_md[k].counter].id[2]
    /\ \A a, b \in 1..Len(code_md) : code_md[a].counter = code_md[b].counter => a = b
    /\ \A a, b \in 1..Len(explanation_md) :
          explanation_md[a].counter = explanation_md[b].counter => a = b

\* every file of the flat folder has its section, out of counter order
C9_Witness ==
    /\ pc = "done"
    /\ Len(code_md) = NumFiles
    /\ code_md[1].counter = NumFiles
    /\ explanation_md[NumFiles].counter = 1

\* C10: when the error of a failed task has left process_folder, every
\* submitted task has finished, each one that gets past the early returns
\* has sent its explanation request, and no result retrieved or not has
\* reached an output file.
C10_FailureCancelsNothing ==
    (flow = "folder" /\ pc = "aborted" /\ \E i \in TaskIdx : futures[i].outcome = "raised")
        => /\ \A i \in TaskIdx :
                 /\ futures[i].state = "FINISHED"
                 /\ IssuesCall(FileOf(fs, tasks[i].id))
                       => Cardinality(ExplainRequests(tasks[i].id)) = 1
           /\ pdfs = {}

\* the error was the first result retrieved, and the other tasks, more than
\* the workers could hold at once, still ran and succeeded
C10_Witness ==
    /\ flow = "folder"
    /\ pc = "aborted"
    /\ Cardinality(retrieved) = 1
    /\ Len(tasks) > MaxWorkers
    /\ Cardinality({i \in TaskIdx : futures[i].outcome = "ok"}) = Len(tasks) - 1
    /\ Cardinality({k \in 1..Len(llmLog) : llmLog[k].kind = "explain"}) = Len(tasks)

=============================================================================
